---- MODULE Spec2Model ----
(***************************************************************************)
(* Model of `pop call parachain` (crates/pop-cli/src/commands/call/        *)
(* parachain.rs): the call session run by CallParachainCommand::execute    *)
(* and the recursive argument resolver prompt_argument.                    *)
(*                                                                         *)
(* Spec          the session: configure, prepare_extrinsic, send_extrinsic *)
(*               and the repeat loop.                                      *)
(* SpecResolver  the resolver applied to an argument descriptor under a    *)
(*               scripted sequence of operator answers.                    *)
(* SpecTemplate  instantiate_template_dir of crates/pop-parachains/src/     *)
(*               new_parachain.rs, one action per file-system or git       *)
(*               operation that may fail.                                  *)
(*                                                                         *)
(* The session is one thread of control. Each action of Spec is the code   *)
(* execute runs from one point where it waits (for the operator or for the *)
(* node) to the next, and pc names the point; nothing else runs between    *)
(* two actions. io is the log of the requests made to the cli and to the   *)
(* node during the current call; a repeated call starts a new log with the *)
(* answer to the repeat question. Writing to the terminal (intro, info,    *)
(* outro) is taken to succeed; every prompt may be canceled.               *)
(***************************************************************************)
EXTENDS Integers, Sequences, FiniteSets, TLC

VARIABLES
    self,                   \* the CallParachainCommand fields
    given,                  \* the fields as parsed from the command line
    pc,                     \* position of execute / send_extrinsic
    repeat,                 \* the `repeat` argument of the current configure
    prompt_to_repeat_call,  \* local of execute, passed down send_extrinsic
    api,                    \* handle held by execute / send_extrinsic (0: none)
    cfg_api,                \* handle the latest configure returned (0: none)
    connections,            \* number of set_up_api calls made so far
    tx,                     \* payload built by prepare_extrinsic, until it is
                            \* moved into sign_and_submit_extrinsic
    io,                     \* cli and network events of the current call
    submitted,              \* sign_and_submit_extrinsic invocations so far:
                            \* the handle, the payload's id and the signer of each
    calls,                  \* call rounds started so far
    extrinsic,              \* local of configure: the extrinsic selected
    rArg,                   \* resolver run: the descriptor
    rScript,                \* resolver run: the operator's answers
    rDone,                  \* resolver run: prompt_argument has been applied
    rRes,                   \* resolver run: what prompt_argument returned
    tTemplate,              \* instantiation: the template
    tConfig,                \* instantiation: the Config
    tTagVersion,            \* instantiation: tag_version
    tSource,                \* instantiation: what WalkDir yields of the clone
    tNext,                  \* instantiation: the entry the copy loop is at
    tOps,                   \* instantiation: operations on git and the file system
    tPc,                    \* instantiation: position
    tResult                 \* instantiation: what has been returned, and the tag

vars == <<self, given, pc, repeat, prompt_to_repeat_call, api, cfg_api,
          connections, tx, io, submitted, calls, extrinsic, rArg, rScript, rDone, rRes,
          tTemplate, tConfig, tTagVersion, tSource, tNext, tOps, tPc, tResult>>

sessionVars == <<self, given, pc, repeat, prompt_to_repeat_call, api, cfg_api,
                 connections, tx, io, submitted, calls, extrinsic>>

resolverVars == <<rArg, rScript, rDone, rRes>>

templateVars == <<tTemplate, tConfig, tTagVersion, tSource, tNext, tOps, tPc, tResult>>

----------------------------------------------------------------------------
(* Bounds *)

\* Longest scripted sequence of answers to argument prompts.
MaxAnswers == 4

\* Most call rounds (first call plus repeats) one session is followed for.
MaxCalls == 2

----------------------------------------------------------------------------
(* Option<String> *)

None == <<>>

Some(x) == <<x>>

----------------------------------------------------------------------------
(* The cli: prompts answered from a script, every request logged *)

NoAns == [k |-> "none", b |-> FALSE, i |-> 0, t |-> ""]

Cancel == [k |-> "cancel", b |-> FALSE, i |-> 0, t |-> ""]

Yes == [k |-> "confirm", b |-> TRUE, i |-> 0, t |-> ""]

No == [k |-> "confirm", b |-> FALSE, i |-> 0, t |-> ""]

Pick(n) == [k |-> "select", b |-> FALSE, i |-> n, t |-> ""]

Text(s) == [k |-> "input", b |-> FALSE, i |-> 0, t |-> s]

Event(op, text, ans) == [op |-> op, text |-> text, ans |-> ans]

Cli(script) == [script |-> script, log |-> <<>>]

\* One prompt's interact(): the operator's next answer, or an error when the
\* operator cancels (no answer of the prompt's kind is next). A select offers
\* items 1..n.
Interact(cli, kind, label, n) ==
    IF /\ cli.script # <<>>
       /\ Head(cli.script).k = kind
       /\ (kind = "select" => Head(cli.script).i \in 1..n)
    THEN [ok |-> TRUE, ans |-> Head(cli.script),
          cli |-> [script |-> Tail(cli.script),
                   log |-> Append(cli.log, Event(kind, label, Head(cli.script)))]]
    ELSE [ok |-> FALSE, ans |-> Cancel,
          cli |-> [script |-> cli.script,
                   log |-> Append(cli.log, Event(kind, label, Cancel))]]

Ok(val, cli) == [ok |-> TRUE, val |-> val, cli |-> cli]

Err(cli) == [ok |-> FALSE, val |-> "", cli |-> cli]

----------------------------------------------------------------------------
(* Argument descriptors (pop_parachains::Arg) *)

Arg(name, type_input, optional, variant, options) ==
    [name |-> name, type_input |-> type_input, optional |-> optional,
     variant |-> variant, options |-> options]

Prim(name, ty) == Arg(name, ty, FALSE, FALSE, <<>>)

Variant(name, alternatives) == Arg(name, "enum", FALSE, TRUE, alternatives)

Composite(name, fields) == Arg(name, "struct", FALSE, FALSE, fields)

Optional(arg) == [arg EXCEPT !.optional = TRUE]

Required(arg) == [arg EXCEPT !.optional = FALSE]

----------------------------------------------------------------------------
(* The resolver *)

ValueQuestion(arg) == "Enter the value for the parameter: " \o arg.name

RECURSIVE join(_, _)
\* field_values.join(sep)
join(values, sep) ==
    IF values = <<>> THEN ""
    ELSE IF Len(values) = 1 THEN values[1]
    ELSE values[1] \o sep \o join(Tail(values), sep)

RECURSIVE prompt_argument(_, _)
RECURSIVE prompt_argument_value(_, _)
RECURSIVE prompt_for_variant(_, _)
RECURSIVE prompt_for_composite(_, _)
RECURSIVE prompt_fields(_, _, _)

prompt_for_primitive(arg, cli) ==
    LET user_input == Interact(cli, "input", ValueQuestion(arg), 0)
    IN  IF user_input.ok THEN Ok(user_input.ans.t, user_input.cli)
        ELSE Err(user_input.cli)

\* The loop `for field_arg in fields { field_values.push(prompt_argument(..)?) }`:
\* [ok, vals, cli], stopping at the first error.
prompt_fields(fields, field_values, cli) ==
    IF fields = <<>> THEN [ok |-> TRUE, vals |-> field_values, cli |-> cli]
    ELSE LET field_value == prompt_argument(Head(fields), cli)
         IN  IF field_value.ok
             THEN prompt_fields(Tail(fields), Append(field_values, field_value.val),
                                field_value.cli)
             ELSE [ok |-> FALSE, vals |-> field_values, cli |-> field_value.cli]

\* prompt_for_variant, had it rendered the parentheses for every alternative.
prompt_for_variant_parenthesised(arg, cli) ==
    LET select == Interact(cli, "select",
                           "Select the value for the parameter: " \o arg.name,
                           Len(arg.options))
    IN  IF ~select.ok THEN Err(select.cli)
        ELSE LET selected_variant == arg.options[select.ans.i]
                 fields == prompt_fields(selected_variant.options, <<>>, select.cli)
             IN  IF fields.ok
                 THEN Ok(selected_variant.name \o "(" \o join(fields.vals, ", ") \o ")",
                         fields.cli)
                 ELSE Err(fields.cli)

prompt_for_variant(arg, cli) ==
    LET select == Interact(cli, "select",
                           "Select the value for the parameter: " \o arg.name,
                           Len(arg.options))
    IN  IF ~select.ok THEN Err(select.cli)
        ELSE LET selected_variant == arg.options[select.ans.i]
             IN  IF selected_variant.options # <<>>
                 THEN LET fields == prompt_fields(selected_variant.options, <<>>,
                                                  select.cli)
                      IN  IF fields.ok
                          THEN Ok(selected_variant.name \o "("
                                    \o join(fields.vals, ", ") \o ")", fields.cli)
                          ELSE Err(fields.cli)
                 ELSE Ok(selected_variant.name, select.cli)

\* prompt_for_composite, had it collected the field values last to first.
prompt_for_composite_reversed(arg, cli) ==
    LET fields == prompt_fields(arg.options, <<>>, cli)
        n == Len(fields.vals)
    IN  IF fields.ok
        THEN Ok(join([k \in 1..n |-> fields.vals[n + 1 - k]], ", "), fields.cli)
        ELSE Err(fields.cli)

prompt_for_composite(arg, cli) ==
    LET fields == prompt_fields(arg.options, <<>>, cli)
    IN  IF fields.ok THEN Ok(join(fields.vals, ", "), fields.cli)
        ELSE Err(fields.cli)

\* prompt_argument_value, had it tested the variant flag first.
prompt_argument_value_by_flag(arg, cli) ==
    IF arg.variant THEN prompt_for_variant(arg, cli)
    ELSE IF arg.options = <<>> THEN prompt_for_primitive(arg, cli)
    ELSE prompt_for_composite(arg, cli)

prompt_argument_value(arg, cli) ==
    IF arg.options = <<>> THEN prompt_for_primitive(arg, cli)
    ELSE IF arg.variant THEN prompt_for_variant(arg, cli)
    ELSE prompt_for_composite(arg, cli)

\* prompt_argument, had it returned a provided optional value as it is.
prompt_argument_unwrapped(arg, cli) ==
    IF arg.optional
    THEN LET confirm == Interact(cli, "confirm",
                 "Do you want to provide a value for the optional parameter: "
                     \o arg.name \o "?", 0)
         IN  IF ~confirm.ok THEN Err(confirm.cli)
             ELSE IF ~confirm.ans.b THEN Ok("None", confirm.cli)
             ELSE prompt_argument_value(arg, confirm.cli)
    ELSE prompt_argument_value(arg, cli)

prompt_argument(arg, cli) ==
    IF arg.optional
    THEN LET confirm == Interact(cli, "confirm",
                 "Do you want to provide a value for the optional parameter: "
                     \o arg.name \o "?", 0)
         IN  IF ~confirm.ok THEN Err(confirm.cli)
             ELSE IF ~confirm.ans.b THEN Ok("None", confirm.cli)
             ELSE LET value == prompt_argument_value(arg, confirm.cli)
                  IN  IF value.ok THEN Ok("Some(" \o value.val \o ")", value.cli)
                      ELSE Err(value.cli)
    ELSE prompt_argument_value(arg, cli)

----------------------------------------------------------------------------
(* Descriptors and answers the resolver is run on *)

Foo == Arg("Foo", "(u32, bool)", FALSE, FALSE, <<Prim("0", "u32"), Prim("1", "bool")>>)

Bar == Arg("Bar", "", FALSE, FALSE, <<>>)

Qux == Arg("Qux", "(u32)", FALSE, FALSE, <<Prim("0", "u32")>>)

Baz == Arg("Baz", "Option<u32>", FALSE, FALSE, <<Optional(Prim("0", "u32"))>>)

BaseArgs ==
    { Prim("value", "u128"),
      Arg("flag", "bool", FALSE, TRUE, <<>>),
      Variant("kind", <<Foo, Bar>>),
      Variant("mode", <<Bar, Baz>>),
      Composite("point", <<Prim("x", "u32"), Prim("y", "u32"), Prim("z", "u32")>>),
      Composite("pair", <<Prim("x", "u32"), Optional(Prim("y", "u32"))>>),
      Composite("wrap", <<Variant("kind", <<Foo, Bar>>)>>) }

ArgSamples == BaseArgs \cup { Optional(a) : a \in BaseArgs }

Texts == {"1", "true"}

Answers == {Yes, No, Pick(1), Pick(2)} \cup { Text(s) : s \in Texts }

NoRes == Err(Cli(<<>>))

----------------------------------------------------------------------------
(* The chain the session talks to: what parse_chain_metadata returns *)

DEFAULT_URL == "ws://localhost:9944/"

DEFAULT_URI == "//Alice"

Extrinsic(name, fields) == [name |-> name, fields |-> fields]

Pallet(name, extrinsics) == [name |-> name, extrinsics |-> extrinsics]

Pallets ==
    << Pallet("Balances",
              << Extrinsic("transfer", <<Prim("dest", "AccountId"), Prim("value", "u128")>>),
                 Extrinsic("transfer_all", <<Optional(Prim("keep_alive", "bool"))>>) >>),
       Pallet("System",
              << Extrinsic("remark", <<Variant("kind", <<Qux, Bar>>)>>),
                 Extrinsic("noop", <<>>) >>) >>

NoExtrinsic == Extrinsic("", <<>>)

PalletIndex(name) == { i \in 1..Len(Pallets) : Pallets[i].name = name }

\* find_pallet_by_name: the pallet of that exact name, or an error.
find_pallet_by_name(pallet_name) ==
    IF PalletIndex(pallet_name) = {} THEN [ok |-> FALSE, pallet |-> Pallet("", <<>>)]
    ELSE [ok |-> TRUE, pallet |-> Pallets[CHOOSE i \in PalletIndex(pallet_name) : TRUE]]

\* url::Url::parse followed by as_str, on the texts an operator enters here.
UrlParse(text) ==
    CASE text = "wss://rpc1.paseo.popnetwork.xyz" ->
             [ok |-> TRUE, url |-> "wss://rpc1.paseo.popnetwork.xyz/"]
      [] text = "ws://127.0.0.1:8000" -> [ok |-> TRUE, url |-> "ws://127.0.0.1:8000/"]
      [] text = "ws://localhost:9944" -> [ok |-> TRUE, url |-> "ws://localhost:9944/"]
      [] OTHER -> [ok |-> FALSE, url |-> ""]

\* An input prompt's default_input: an empty entry yields the default.
WithDefault(ans, default) == IF ans.t = "" THEN default ELSE ans.t

----------------------------------------------------------------------------
(* CallParachainCommand *)

Command(p, e, a, u, s) ==
    [pallet |-> p, extrinsic |-> e, args |-> a, url |-> u, suri |-> s]

Quoted(args) == [i \in 1..Len(args) |-> "\"" \o args[i] \o "\""]

\* display, had it put the extrinsic before the pallet.
display_extrinsic_first(cmd) ==
    "pop call parachain"
        \o (IF cmd.extrinsic # None THEN " --extrinsic " \o cmd.extrinsic[1] ELSE "")
        \o (IF cmd.pallet # None THEN " --pallet " \o cmd.pallet[1] ELSE "")
        \o (IF cmd.args # <<>> THEN " --args " \o join(Quoted(cmd.args), ", ") ELSE "")
        \o " --url " \o cmd.url \o " --suri " \o cmd.suri

display(cmd) ==
    "pop call parachain"
        \o (IF cmd.pallet # None THEN " --pallet " \o cmd.pallet[1] ELSE "")
        \o (IF cmd.extrinsic # None THEN " --extrinsic " \o cmd.extrinsic[1] ELSE "")
        \o (IF cmd.args # <<>> THEN " --args " \o join(Quoted(cmd.args), ", ") ELSE "")
        \o " --url " \o cmd.url \o " --suri " \o cmd.suri

\* reset_for_new_call, had it reset the signer as well.
reset_for_new_call_and_signer(cmd) ==
    [cmd EXCEPT !.pallet = None, !.extrinsic = None, !.suri = ""]

reset_for_new_call(cmd) == [cmd EXCEPT !.pallet = None, !.extrinsic = None]

\* display_message, had it closed with outro whatever the outcome.
display_message_outro(log, message, success) ==
    Append(log, Event("outro", message, NoAns))

\* display_message: outro on success, outro_cancel otherwise.
display_message(log, message, success) ==
    Append(log, Event(IF success THEN "outro" ELSE "outro_cancel", message, NoAns))

\* {:?} of an Option<String>
DebugOption(o) == IF o = None THEN "None" ELSE "Some(\"" \o o[1] \o "\")"

\* The session's questions.
UrlQuestion == "Which chain would you like to interact with?"

PalletQuestion == "Select the pallet to call:"

ExtrinsicQuestion == "Select the extrinsic to call:"

SignerQuestion == "Who is going to sign the extrinsic:"

SubmitQuestion == "Do you want to submit the call?"

RepeatQuestion == "Do you want to perform another call to the same chain?"

CanceledMessage(cmd) ==
    "Extrinsic " \o DebugOption(cmd.extrinsic)
        \o " was not submitted. Operation canceled by the user."

\* The session prompts take the operator's one next answer.
Ask(log, kind, label, ans, n) ==
    Interact([script |-> <<ans>>, log |-> log], kind, label, n)

----------------------------------------------------------------------------
(* External operations of pop_parachains, at their interface *)

NoTx == [id |-> 0, pallet |-> "", extrinsic |-> "", args |-> <<>>]

ExtrinsicsNamed(pallet, name) ==
    { i \in 1..Len(pallet.extrinsics) : pallet.extrinsics[i].name = name }

\* construct_extrinsic: the payload, or an error when the pallet or extrinsic is
\* unknown, the argument count is not the extrinsic's arity, or an argument
\* cannot be encoded as its type.
construct_extrinsic(id, pallet_name, extrinsic_name, args, encodable) ==
    LET found == find_pallet_by_name(pallet_name)
        named == ExtrinsicsNamed(found.pallet, extrinsic_name)
    IN  IF /\ found.ok
           /\ named # {}
           /\ \E i \in named : Len(found.pallet.extrinsics[i].fields) = Len(args)
           /\ encodable
        THEN [ok |-> TRUE,
              tx |-> [id |-> id, pallet |-> pallet_name, extrinsic |-> extrinsic_name,
                      args |-> args]]
        ELSE [ok |-> FALSE, tx |-> NoTx]

\* encode_call_data, rendered readably.
encode_call_data(payload) ==
    payload.pallet \o "." \o payload.extrinsic \o "(" \o join(payload.args, ", ") \o ")"

----------------------------------------------------------------------------
(* Templates and what instantiating one works on (pop-parachains) *)

\* A template of pop_parachains::Parachain: its name and its provider.
Parachain(name, provider) == [name |-> name, provider |-> provider]

Templates ==
    { Parachain("standard", "Pop"), Parachain("assets", "Pop"),
      Parachain("contracts", "Pop"), Parachain("evm", "Pop"),
      Parachain("simple", "Tanssi"), Parachain("frontier", "Tanssi"),
      Parachain("polkadot-generic-runtime-template", "OpenZeppelin"),
      Parachain("cpt", "Parity") }

\* Provider::provides
provides(provider, template) == template.provider = provider

repository_url(template) == "https://github.com/" \o template.provider \o "/" \o template.name

Config(symbol, decimals, initial_endowment) ==
    [symbol |-> symbol, decimals |-> decimals, initial_endowment |-> initial_endowment]

Configs == { Config("DOT", 18, "1000000"), Config("UNIT", 12, "1u64 << 60") }

TagVersions == {None, Some("v1.0.0")}

\* One entry of WalkDir: a path under the root, a directory or a file.
Entry(path, is_dir) == [path |-> path, is_dir |-> is_dir]

\* What WalkDir yields of a cloned template: the root first.
SourceTrees ==
    { <<Entry("", TRUE), Entry("Cargo.toml", FALSE), Entry("node", TRUE),
        Entry("node/src", TRUE), Entry("node/src/chain_spec.rs", FALSE)>>,
      <<Entry("", TRUE), Entry("README.md", FALSE)>> }

NoContent ==
    [token_symbol |-> "", decimals |-> 0, initial_endowment |-> "", node |-> "", url |-> ""]

\* ChainSpec { token_symbol, decimals, initial_endowment }.render()
ChainSpecRender(token_symbol, decimals, initial_endowment) ==
    [NoContent EXCEPT !.token_symbol = token_symbol, !.decimals = decimals,
                      !.initial_endowment = initial_endowment]

\* Network { node }.render()
NetworkRender(node) == [NoContent EXCEPT !.node = node]

\* One operation: its kind, the path it works on, what it writes or clones,
\* and whether it succeeded.
Op(kind, path, content, ok) == [kind |-> kind, path |-> path, content |-> content, ok |-> ok]

\* Path::join
PathJoin(base, rel) == IF rel = "" THEN base ELSE base \o "/" \o rel

\* The `target` argument and the TempDir of an instantiation.
Target == "my-parachain"

TempDir == "/tmp/.tmpXYZ"

NoResult == [done |-> FALSE, ok |-> FALSE, tag |-> None]

\* No instantiation is running.
NoInstantiation ==
    /\ tTemplate = Parachain("standard", "Pop")
    /\ tConfig = Config("DOT", 18, "1000000")
    /\ tTagVersion = None
    /\ tSource = <<Entry("", TRUE)>>
    /\ tNext = 1
    /\ tOps = <<>>
    /\ tPc = "idle"
    /\ tResult = NoResult

----------------------------------------------------------------------------
(* The operator's possible answers in a session *)

UrlAnswers ==
    {Cancel, Text(""), Text("ws://127.0.0.1:8000"), Text("ws://localhost:9944"),
     Text("not a url")}

SelectAnswers == {Cancel, Pick(1), Pick(2)}

SignerAnswers == {Cancel, Text(""), Text("//Bob")}

ConfirmAnswers == {Cancel, Yes, No}

RECURSIVE SeqsUpTo(_, _)
SeqsUpTo(S, n) ==
    IF n = 0 THEN {<<>>}
    ELSE LET shorter == SeqsUpTo(S, n - 1)
         IN  shorter \cup { Append(q, a) : q \in { r \in shorter : Len(r) = n - 1 }, a \in S }

Max(a, b) == IF a >= b THEN a ELSE b

RECURSIVE PromptsOf(_)
RECURSIVE PromptsOfAll(_)
RECURSIVE PromptsOfAny(_)
\* The most prompts resolving a descriptor can issue.
PromptsOf(arg) ==
    (IF arg.optional THEN 1 ELSE 0)
        + (IF arg.options = <<>> THEN 1
           ELSE IF arg.variant THEN 1 + PromptsOfAny(arg.options)
           ELSE PromptsOfAll(arg.options))

PromptsOfAll(fields) ==
    IF fields = <<>> THEN 0 ELSE PromptsOf(Head(fields)) + PromptsOfAll(Tail(fields))

PromptsOfAny(alternatives) ==
    IF alternatives = <<>> THEN 0
    ELSE Max(PromptsOfAll(Head(alternatives).options), PromptsOfAny(Tail(alternatives)))

\* The scripts an operator may follow while the arguments of a call are resolved.
ArgScripts(fields) == SeqsUpTo(Answers, PromptsOfAll(fields))

----------------------------------------------------------------------------
(* The session: execute *)

GivenPallets == {None, Some("Balances"), Some("Nope")}

GivenExtrinsics == {None, Some("transfer"), Some("bogus")}

GivenArgs == {<<>>, <<"5Grwva", "1000">>}

GivenUrls == {DEFAULT_URL, "ws://node:9944/"}

GivenSuris == {DEFAULT_URI, ""}

Init ==
    /\ self \in { Command(p, e, a, u, s) : p \in GivenPallets, e \in GivenExtrinsics,
                                           a \in GivenArgs, u \in GivenUrls,
                                           s \in GivenSuris }
    /\ given = self
    /\ pc = "start"
    /\ repeat = FALSE
    /\ prompt_to_repeat_call = FALSE
    /\ api = 0
    /\ cfg_api = 0
    /\ connections = 0
    /\ tx = NoTx
    /\ io = <<>>
    /\ submitted = <<>>
    /\ calls = 0
    /\ extrinsic = NoExtrinsic
    /\ rArg = Prim("value", "u128")
    /\ rScript = <<>>
    /\ rDone = FALSE
    /\ rRes = NoRes
    /\ NoInstantiation

\* `let prompt_to_repeat_call = self.extrinsic.is_none();`
repeat_decision(cmd) == cmd.extrinsic = None

\* An error, had execute returned on it without reporting it.
Fail_silent(cmd, log, message) ==
    /\ self' = cmd
    /\ io' = log
    /\ pc' = "failed"

\* An error reaches execute, which reports it and returns.
Fail(cmd, log, message) ==
    /\ self' = cmd
    /\ io' = display_message(log, message, FALSE)
    /\ pc' = "failed"

Start ==
    /\ pc = "start"
    /\ prompt_to_repeat_call' = repeat_decision(self)
    /\ calls' = 1
    /\ pc' = "configure"
    /\ UNCHANGED <<self, given, repeat, api, cfg_api, connections, tx, io, submitted,
                   extrinsic>>
    /\ UNCHANGED <<resolverVars, templateVars>>

\* The url question, had it been asked whenever the url is the default.
prompts_url_on_default(is_repeat, cmd) == cmd.url = DEFAULT_URL

\* `if !repeat && self.url.as_str() == DEFAULT_URL`
prompts_url(is_repeat, cmd) == ~is_repeat /\ cmd.url = DEFAULT_URL

\* configure, to the metadata: intro, url prompt, set_up_api, parse_chain_metadata.
ConfigureConnect ==
    /\ pc = "configure"
    /\ \E urlAns \in UrlAnswers, connect_ok \in BOOLEAN, metadata_ok \in BOOLEAN :
        LET shown == IF ~repeat THEN Append(io, Event("intro", "Call a parachain", NoAns))
                     ELSE io
            prompted == prompts_url(repeat, self)
            input == Ask(shown, "input", UrlQuestion, urlAns, 0)
            parsed == UrlParse(WithDefault(input.ans, "wss://rpc1.paseo.popnetwork.xyz"))
            cmd == IF prompted THEN [self EXCEPT !.url = parsed.url] ELSE self
            asked == IF prompted THEN input.cli.log ELSE shown
            connected == Append(asked, Event("set_up_api", cmd.url, NoAns))
            fetched == Append(connected, Event("parse_chain_metadata", cmd.url, NoAns))
        IN  IF prompted /\ ~input.ok
            THEN Fail(self, asked, "input canceled") /\ UNCHANGED <<cfg_api, connections>>
            ELSE IF prompted /\ ~parsed.ok
            THEN Fail(self, asked, "relative URL without a base")
                 /\ UNCHANGED <<cfg_api, connections>>
            ELSE IF ~connect_ok
            THEN Fail(cmd, connected, "Failed to establish a connection")
                 /\ connections' = connections + 1
                 /\ UNCHANGED cfg_api
            ELSE IF ~metadata_ok
            THEN Fail(cmd, fetched, "Unable to fetch the chain metadata: error")
                 /\ connections' = connections + 1
                 /\ cfg_api' = connections + 1
            ELSE /\ self' = cmd
                 /\ io' = fetched
                 /\ connections' = connections + 1
                 /\ cfg_api' = connections + 1
                 /\ pc' = "select"
    /\ UNCHANGED <<given, repeat, prompt_to_repeat_call, api, tx, submitted, calls,
                   extrinsic>>
    /\ UNCHANGED <<resolverVars, templateVars>>

\* Had configure kept an extrinsic name the command already held.
record_extrinsic_unless_given(cmd, chosen) ==
    IF cmd.extrinsic # None THEN cmd ELSE [cmd EXCEPT !.extrinsic = Some(chosen.name)]

\* `self.extrinsic = Some(extrinsic.name);`
record_extrinsic(cmd, chosen) == [cmd EXCEPT !.extrinsic = Some(chosen.name)]

\* configure, the call selection: the pallet, then the extrinsic.
ConfigureSelect ==
    /\ pc = "select"
    /\ \E palletAns \in SelectAnswers, extrinsicAns \in SelectAnswers :
        LET supplied == self.pallet # None
            found == find_pallet_by_name(self.pallet[1])
            pallet_prompted == Ask(io, "select", PalletQuestion, palletAns, Len(Pallets))
            pallet_ok == IF supplied THEN found.ok ELSE pallet_prompted.ok
            pallet == IF supplied THEN found.pallet ELSE Pallets[pallet_prompted.ans.i]
            cmd == IF supplied THEN self ELSE [self EXCEPT !.pallet = Some(pallet.name)]
            asked == IF supplied THEN io ELSE pallet_prompted.cli.log
            prompt_extrinsic == Ask(asked, "select", ExtrinsicQuestion, extrinsicAns,
                                    Len(pallet.extrinsics))
            chosen == pallet.extrinsics[prompt_extrinsic.ans.i]
        IN  IF ~pallet_ok
            THEN Fail(self, asked, IF supplied THEN "Failed to find the pallet " \o self.pallet[1]
                                   ELSE "select canceled")
                 /\ UNCHANGED extrinsic
            ELSE IF ~prompt_extrinsic.ok
            THEN Fail(cmd, prompt_extrinsic.cli.log, "select canceled")
                 /\ UNCHANGED extrinsic
            ELSE /\ self' = record_extrinsic(cmd, chosen)
                 /\ extrinsic' = chosen
                 /\ io' = prompt_extrinsic.cli.log
                 /\ pc' = "args"
    /\ UNCHANGED <<given, repeat, prompt_to_repeat_call, api, cfg_api, connections, tx,
                   submitted, calls>>
    /\ UNCHANGED <<resolverVars, templateVars>>

RECURSIVE resolve_args(_, _, _, _)
\* The loop over extrinsic.fields: process_prompt_arguments (which fails for the
\* field numbered unprocessable, if any), then prompt_argument.
resolve_args(fields, unprocessable, contract_args, cli) ==
    IF fields = <<>> THEN [ok |-> TRUE, vals |-> contract_args, cli |-> cli]
    ELSE IF unprocessable = Len(contract_args) + 1
    THEN [ok |-> FALSE, vals |-> contract_args, cli |-> cli]
    ELSE LET input == prompt_argument(Head(fields), cli)
         IN  IF input.ok
             THEN resolve_args(Tail(fields), unprocessable,
                               Append(contract_args, input.val), input.cli)
             ELSE [ok |-> FALSE, vals |-> contract_args, cli |-> input.cli]

\* Had send_extrinsic gone on with the handle the repeated configure returned.
api_after_configure_returned(is_repeat, held, returned) == returned

\* The handle execute, or send_extrinsic on a repeat, goes on with after configure.
api_after_configure(is_repeat, held, returned) == IF is_repeat THEN held ELSE returned

\* Had configure pushed the resolved values onto the argument list it holds.
record_args_appended(cmd, contract_args) ==
    [cmd EXCEPT !.args = cmd.args \o contract_args]

\* `self.args = contract_args;`
record_args(cmd, contract_args) == [cmd EXCEPT !.args = contract_args]

\* configure, the arguments: resolve each, record them, show the call.
ConfigureArgs ==
    /\ pc = "args"
    /\ \E script \in ArgScripts(extrinsic.fields), unprocessable \in 0..Len(extrinsic.fields) :
        LET resolved == resolve_args(extrinsic.fields, unprocessable, <<>>,
                                     [script |-> script, log |-> io])
            cmd == record_args(self, resolved.vals)
        IN  IF ~resolved.ok
            THEN Fail(self, resolved.cli.log, "argument not resolved") /\ UNCHANGED api
            ELSE /\ self' = cmd
                 /\ io' = Append(resolved.cli.log, Event("info", display(cmd), NoAns))
                 /\ api' = api_after_configure(repeat, api, cfg_api)
                 /\ pc' = "prepare"
    /\ UNCHANGED <<given, repeat, prompt_to_repeat_call, cfg_api, connections, tx,
                   submitted, calls, extrinsic>>
    /\ UNCHANGED <<resolverVars, templateVars>>

\* prepare_extrinsic: build the payload and show its encoding.
PrepareExtrinsic ==
    /\ pc = "prepare"
    /\ \E encodable \in BOOLEAN, encoded \in BOOLEAN :
        LET built == construct_extrinsic(calls, self.pallet[1], self.extrinsic[1],
                                         self.args, encodable)
        IN  IF self.extrinsic = None
            THEN Fail(self, io, "Please specify the extrinsic.") /\ UNCHANGED tx
            ELSE IF self.pallet = None
            THEN Fail(self, io, "Please specify the pallet.") /\ UNCHANGED tx
            ELSE IF ~built.ok
            THEN Fail(self, io, "Error parsing the arguments: error") /\ UNCHANGED tx
            ELSE IF ~encoded
            THEN Fail(self, io, "Failed to encode call data") /\ UNCHANGED tx
            ELSE /\ tx' = built.tx
                 /\ io' = Append(io, Event("info", "Encoded call data: "
                                                    \o encode_call_data(built.tx), NoAns))
                 /\ pc' = "send"
                 /\ UNCHANGED self
    /\ UNCHANGED <<given, repeat, prompt_to_repeat_call, api, cfg_api, connections,
                   submitted, calls, extrinsic>>
    /\ UNCHANGED <<resolverVars, templateVars>>

\* send_extrinsic without its `cli.info(self.display())?`.
show_call_skipped(log, cmd) == log

\* `cli.info(self.display())?` of send_extrinsic
show_call(log, cmd) == Append(log, Event("info", display(cmd), NoAns))

\* The confirmation, had a no not returned.
after_confirm_ignored(answer) == "signing"

\* `if !cli.confirm("Do you want to submit the call?")...interact()? { ...; return Ok(()) }`
after_confirm(answer) == IF answer THEN "signing" ELSE "canceled"

\* send_extrinsic, to the confirmation: the signer, the call line, the question.
SendExtrinsic ==
    /\ pc = "send"
    /\ \E signerAns \in SignerAnswers, confirmAns \in ConfirmAnswers :
        LET prompted == self.suri = ""
            input == Ask(io, "input", SignerQuestion, signerAns, 0)
            cmd == IF prompted THEN [self EXCEPT !.suri = WithDefault(input.ans, "//Alice")]
                   ELSE self
            asked == IF prompted THEN input.cli.log ELSE io
            confirm == Ask(show_call(asked, cmd), "confirm", SubmitQuestion, confirmAns, 0)
        IN  IF prompted /\ ~input.ok
            THEN Fail(self, asked, "input canceled")
            ELSE IF ~confirm.ok
            THEN Fail(cmd, confirm.cli.log, "confirm canceled")
            ELSE IF after_confirm(confirm.ans.b) = "canceled"
            THEN /\ self' = cmd
                 /\ io' = display_message(confirm.cli.log, CanceledMessage(cmd), FALSE)
                 /\ pc' = "canceled"
            ELSE /\ self' = cmd
                 /\ io' = confirm.cli.log
                 /\ pc' = "signing"
    /\ UNCHANGED <<given, repeat, prompt_to_repeat_call, api, cfg_api, connections, tx,
                   submitted, calls, extrinsic>>
    /\ UNCHANGED <<resolverVars, templateVars>>

\* The repeat decision, had it been taken again from the extrinsic name now recorded.
offers_repeat_recomputed(flag, cmd) == cmd.extrinsic = None

\* `if !prompt_to_repeat_call { display_message("Call completed successfully!"..); return }`
offers_repeat(flag, cmd) == flag

\* send_extrinsic, the submission: sign_and_submit_extrinsic and its report.
SignAndSubmit ==
    /\ pc = "signing"
    /\ \E accepted \in BOOLEAN :
        LET called == Append(io, Event("sign_and_submit_extrinsic",
                                       encode_call_data(tx), NoAns))
            reported == display_message(called, "Extrinsic submitted with hash: 0x", TRUE)
        IN  /\ submitted' = Append(submitted, [api |-> api, tx |-> tx.id, suri |-> self.suri])
            /\ tx' = NoTx
            /\ IF ~accepted
               THEN /\ io' = display_message(called, "ERROR: submission failed", FALSE)
                    /\ pc' = "failed"
               ELSE IF ~offers_repeat(prompt_to_repeat_call, self)
               THEN /\ io' = display_message(reported, "Call completed successfully!", TRUE)
                    /\ pc' = "done"
               ELSE /\ io' = reported
                    /\ pc' = "repeat_prompt"
    /\ UNCHANGED <<self, given, repeat, prompt_to_repeat_call, api, cfg_api, connections,
                   calls, extrinsic>>
    /\ UNCHANGED <<resolverVars, templateVars>>

\* The repeat question, had any answer to it started another call.
repeat_answer_any(answer) == TRUE

\* `if cli.confirm("Do you want to perform another call to the same chain?")...interact()?`
repeat_answer(answer) == answer

\* send_extrinsic, the repeat question: on yes reset and configure again.
RepeatPrompt ==
    /\ pc = "repeat_prompt"
    /\ \E answer \in ConfirmAnswers :
        LET confirm == Ask(io, "confirm", RepeatQuestion, answer, 0)
        IN  IF ~confirm.ok
            THEN Fail(self, confirm.cli.log, "confirm canceled")
                 /\ UNCHANGED <<repeat, calls, extrinsic>>
            ELSE IF repeat_answer(confirm.ans.b)
            THEN /\ calls < MaxCalls
                 /\ self' = reset_for_new_call(self)
                 /\ repeat' = TRUE
                 /\ calls' = calls + 1
                 /\ extrinsic' = NoExtrinsic
                 /\ io' = Ask(<<>>, "confirm", RepeatQuestion, answer, 0).cli.log
                 /\ pc' = "configure"
            ELSE /\ self' = self
                 /\ io' = display_message(confirm.cli.log, "Parachain calling complete.",
                                          TRUE)
                 /\ pc' = "done"
                 /\ UNCHANGED <<repeat, calls, extrinsic>>
    /\ UNCHANGED <<given, prompt_to_repeat_call, api, cfg_api, connections, tx, submitted>>
    /\ UNCHANGED <<resolverVars, templateVars>>

Next ==
    \/ Start
    \/ ConfigureConnect
    \/ ConfigureSelect
    \/ ConfigureArgs
    \/ PrepareExtrinsic
    \/ SendExtrinsic
    \/ SignAndSubmit
    \/ RepeatPrompt

Spec == Init /\ [][Next]_vars

----------------------------------------------------------------------------
(* The resolver on its own: a descriptor, a script of answers, one run *)

InitResolver ==
    /\ self = Command(None, None, <<>>, DEFAULT_URL, DEFAULT_URI)
    /\ given = self
    /\ pc = "idle"
    /\ repeat = FALSE
    /\ prompt_to_repeat_call = FALSE
    /\ api = 0
    /\ cfg_api = 0
    /\ connections = 0
    /\ tx = NoTx
    /\ io = <<>>
    /\ submitted = <<>>
    /\ calls = 0
    /\ extrinsic = NoExtrinsic
    /\ rArg \in ArgSamples
    /\ rScript = <<>>
    /\ rDone = FALSE
    /\ rRes = NoRes
    /\ NoInstantiation

\* The operator's script grows by one answer.
Script ==
    /\ ~rDone
    /\ Len(rScript) < MaxAnswers
    /\ \E answer \in Answers : rScript' = Append(rScript, answer)
    /\ UNCHANGED <<rArg, rDone, rRes>>
    /\ UNCHANGED <<sessionVars, templateVars>>

\* prompt_argument is applied to the descriptor under the script.
Resolve ==
    /\ ~rDone
    /\ rDone' = TRUE
    /\ rRes' = prompt_argument(rArg, Cli(rScript))
    /\ UNCHANGED <<rArg, rScript>>
    /\ UNCHANGED <<sessionVars, templateVars>>

NextResolver == Script \/ Resolve

SpecResolver == InitResolver /\ [][NextResolver]_vars

----------------------------------------------------------------------------
(* Instantiating a template: instantiate_template_dir *)

InitTemplate ==
    /\ self = Command(None, None, <<>>, DEFAULT_URL, DEFAULT_URI)
    /\ given = self
    /\ pc = "idle"
    /\ repeat = FALSE
    /\ prompt_to_repeat_call = FALSE
    /\ api = 0
    /\ cfg_api = 0
    /\ connections = 0
    /\ tx = NoTx
    /\ io = <<>>
    /\ submitted = <<>>
    /\ calls = 0
    /\ extrinsic = NoExtrinsic
    /\ rArg = Prim("value", "u128")
    /\ rScript = <<>>
    /\ rDone = FALSE
    /\ rRes = NoRes
    /\ tTemplate \in Templates
    /\ tConfig \in Configs
    /\ tTagVersion \in TagVersions
    /\ tSource \in SourceTrees
    /\ tNext = 1
    /\ tOps = <<>>
    /\ tPc = "start"
    /\ tResult = NoResult

\* The dispatch, had it known the Pop provider only.
strategy_pop_or_clone(template) ==
    IF provides("Pop", template) THEN "standard" ELSE "clone"

\* The dispatch of instantiate_template_dir.
strategy(template) ==
    IF provides("Pop", template) THEN "standard"
    ELSE IF provides("Tanssi", template) THEN "tanssi"
    ELSE "clone"

\* `return Err(..)` / `?`
Return(ops, ok) ==
    /\ tOps' = ops
    /\ tResult' = [tResult EXCEPT !.done = TRUE, !.ok = ok]
    /\ tPc' = "returned"

\* Git::clone_and_degit into a directory: the operation, and the tag it yields.
CloneInto(dir, ok) ==
    Op("clone_and_degit", dir, [NoContent EXCEPT !.url = repository_url(tTemplate)], ok)

TagOf(latest) == IF tTagVersion # None THEN tTagVersion ELSE latest

\* instantiate_template_dir: sanitize, then the strategy for the template.
InstantiateTemplateDir ==
    /\ tPc = "start"
    /\ \E sanitized \in BOOLEAN :
        LET ops == Append(tOps, Op("sanitize", Target, NoContent, sanitized))
        IN  IF ~sanitized THEN Return(ops, FALSE)
            ELSE /\ tOps' = ops
                 /\ tPc' = strategy(tTemplate)
                 /\ UNCHANGED tResult
    /\ UNCHANGED <<tTemplate, tConfig, tTagVersion, tSource, tNext>>
    /\ UNCHANGED <<sessionVars, resolverVars>>

\* instantiate_standard_template: the temporary directory and the clone into it.
StandardClone ==
    /\ tPc = "standard"
    /\ \E created \in BOOLEAN, cloned \in BOOLEAN, latest \in TagVersions :
        LET temp_dir == Append(tOps, Op("TempDir::new_in", TempDir, NoContent, created))
            clone == Append(temp_dir, CloneInto(TempDir, cloned))
        IN  IF ~created THEN Return(temp_dir, FALSE)
            ELSE IF ~cloned THEN Return(clone, FALSE)
            ELSE /\ tOps' = clone
                 /\ tResult' = [tResult EXCEPT !.tag = TagOf(latest)]
                 /\ tPc' = "copy"
    /\ UNCHANGED <<tTemplate, tConfig, tTagVersion, tSource, tNext>>
    /\ UNCHANGED <<sessionVars, resolverVars>>

\* instantiate_standard_template: one entry of the WalkDir loop.
StandardCopy ==
    /\ tPc = "copy"
    /\ \E walked \in BOOLEAN, copied \in BOOLEAN :
        LET entry == tSource[tNext]
            destination_path == PathJoin(Target, entry.path)
            ops == Append(tOps, Op(IF entry.is_dir THEN "create_dir_all" ELSE "copy",
                                   destination_path, NoContent, copied))
        IN  IF ~walked THEN Return(tOps, FALSE) /\ UNCHANGED tNext
            ELSE IF ~copied THEN Return(ops, FALSE) /\ UNCHANGED tNext
            ELSE /\ tOps' = ops
                 /\ tNext' = tNext + 1
                 /\ tPc' = IF tNext = Len(tSource) THEN "chain_spec" ELSE "copy"
                 /\ UNCHANGED tResult
    /\ UNCHANGED <<tTemplate, tConfig, tTagVersion, tSource>>
    /\ UNCHANGED <<sessionVars, resolverVars>>

\* instantiate_standard_template: node/src/chain_spec.rs from the config.
StandardWriteChainSpec ==
    /\ tPc = "chain_spec"
    /\ \E written \in BOOLEAN :
        LET chainspec == ChainSpecRender(tConfig.symbol, tConfig.decimals,
                                         tConfig.initial_endowment)
            ops == Append(tOps, Op("write_to_file",
                                   PathJoin(Target, "node/src/chain_spec.rs"),
                                   chainspec, written))
        IN  IF ~written THEN Return(ops, FALSE)
            ELSE /\ tOps' = ops
                 /\ tPc' = "network"
                 /\ UNCHANGED tResult
    /\ UNCHANGED <<tTemplate, tConfig, tTagVersion, tSource, tNext>>
    /\ UNCHANGED <<sessionVars, resolverVars>>

\* instantiate_standard_template: network.toml, and the tag returned.
StandardWriteNetwork ==
    /\ tPc = "network"
    /\ \E written \in BOOLEAN :
        LET network == NetworkRender("parachain-template-node")
            ops == Append(tOps, Op("write_to_file", PathJoin(Target, "network.toml"),
                                   network, written))
        IN  Return(ops, written)
    /\ UNCHANGED <<tTemplate, tConfig, tTagVersion, tSource, tNext>>
    /\ UNCHANGED <<sessionVars, resolverVars>>

\* The operations of instantiate_tanssi_template in their order, all succeeding.
TanssiSteps(template) ==
    << Op("TempDir::new_in", TempDir, NoContent, TRUE),
       CloneInto(TempDir, TRUE),
       Op("extract_template_files", Target, NoContent, TRUE),
       Op("extract_template_files", PathJoin(Target, "node"), NoContent, TRUE),
       Op("extract_template_files", PathJoin(Target, "runtime"), NoContent, TRUE),
       Op("write_to_file", PathJoin(Target, "network.toml"),
          NetworkRender("container-chain-" \o template.name \o "-node"), TRUE),
       Op("write_to_file", PathJoin(Target, "Cargo.toml"), NoContent, TRUE),
       Op("collect_manifest_dependencies", Target, NoContent, TRUE),
       Op("fs::write", PathJoin(Target, "Cargo.toml"), NoContent, TRUE) >>

\* instantiate_tanssi_template: its operations up to the first that fails;
\* without a tag `tag.clone().unwrap()` panics once network.toml is written.
TanssiTemplate ==
    /\ tPc = "tanssi"
    /\ \E failing \in 0..Len(TanssiSteps(tTemplate)), latest \in TagVersions :
        LET steps == TanssiSteps(tTemplate)
            done == IF failing = 0 THEN steps
                    ELSE Append(SubSeq(steps, 1, failing - 1),
                                [steps[failing] EXCEPT !.ok = FALSE])
            cloned == failing = 0 \/ failing > 2
            panics == cloned /\ TagOf(latest) = None /\ (failing = 0 \/ failing > 6)
        IN  /\ tOps' = tOps \o (IF panics THEN SubSeq(steps, 1, 6) ELSE done)
            /\ tResult' = [done |-> TRUE, ok |-> failing = 0 /\ ~panics,
                           tag |-> IF cloned THEN TagOf(latest) ELSE None]
            /\ tPc' = "returned"
    /\ UNCHANGED <<tTemplate, tConfig, tTagVersion, tSource, tNext>>
    /\ UNCHANGED <<sessionVars, resolverVars>>

\* instantiate_template_dir: clone and degit into the target.
PlainClone ==
    /\ tPc = "clone"
    /\ \E cloned \in BOOLEAN, latest \in TagVersions :
        /\ tOps' = Append(tOps, CloneInto(Target, cloned))
        /\ tResult' = [done |-> TRUE, ok |-> cloned,
                       tag |-> IF cloned THEN TagOf(latest) ELSE None]
        /\ tPc' = "returned"
    /\ UNCHANGED <<tTemplate, tConfig, tTagVersion, tSource, tNext>>
    /\ UNCHANGED <<sessionVars, resolverVars>>

NextTemplate ==
    \/ InstantiateTemplateDir
    \/ StandardClone
    \/ StandardCopy
    \/ StandardWriteChainSpec
    \/ StandardWriteNetwork
    \/ TanssiTemplate
    \/ PlainClone

SpecTemplate == InitTemplate /\ [][NextTemplate]_vars

----------------------------------------------------------------------------
(* Reading the event log *)

Events(log, op) == { i \in 1..Len(log) : log[i].op = op }

Questions(log, label) == { i \in 1..Len(log) : log[i].text = label /\ log[i].ans # NoAns }

Submissions(log) == Events(log, "sign_and_submit_extrinsic")

Last(log) == log[Len(log)]

\* The call line and the encoding of the call the command now describes.
PayloadOf(cmd) ==
    [id |-> 0, pallet |-> cmd.pallet[1], extrinsic |-> cmd.extrinsic[1], args |-> cmd.args]

EncodedLine(cmd) == "Encoded call data: " \o encode_call_data(PayloadOf(cmd))

----------------------------------------------------------------------------
(* The submission controller *)

\* C1: whenever the operator has answered no to the submit confirmation of a
\* call, sign_and_submit_extrinsic has not been invoked for that call, the
\* "was not submitted. Operation canceled by the user." message is the last
\* thing reported, and the session has ended as canceled: it takes no further
\* step, so no repeat question is asked.
C1_DeclineSubmitsNothing ==
    /\ \A i \in Questions(io, SubmitQuestion) :
          io[i].ans = No =>
              /\ pc = "canceled"
              /\ Submissions(io) = {}
              /\ \A k \in 1..Len(submitted) : submitted[k].tx # calls
              /\ Len(io) = i + 1
              /\ Last(io) = Event("outro_cancel", CanceledMessage(self), NoAns)
              /\ Questions(io, RepeatQuestion) \cap (i..Len(io)) = {}
              /\ ~ENABLED Next
    /\ pc = "canceled" => \E i \in Questions(io, SubmitQuestion) : io[i].ans = No

\* A call of the repeat loop, after one submitted call, is declined.
C1_Witness ==
    /\ pc = "canceled"
    /\ calls = 2
    /\ Len(submitted) = 1
    /\ Last(io).op = "outro_cancel"

\* C2: every invocation of sign_and_submit_extrinsic comes right after a yes to
\* the submit confirmation, which comes right after the call line of the
\* command was shown; the payload submitted is the one prepared for this call
\* from the pallet, extrinsic and args the line shows, under the url and signer
\* it shows; and no prepared payload is submitted twice.
C2_SubmitFollowsDisplayAndYes ==
    /\ \A i \in Submissions(io) :
          /\ i >= 3
          /\ io[i - 1] = Event("confirm", SubmitQuestion, Yes)
          /\ io[i - 2] = Event("info", display(self), NoAns)
          /\ io[i].text = encode_call_data(PayloadOf(self))
          /\ submitted # <<>>
          /\ Last(submitted) = [api |-> api, tx |-> calls, suri |-> self.suri]
    /\ Cardinality(Submissions(io)) <= 1
    /\ \A j, k \in 1..Len(submitted) : submitted[j].tx = submitted[k].tx => j = k
    /\ \A k \in 1..Len(submitted) : submitted[k].tx \in 1..calls
    /\ pc = "signing" =>
          /\ tx = [PayloadOf(self) EXCEPT !.id = calls]
          /\ Last(io) = Event("confirm", SubmitQuestion, Yes)

\* The second call of a session has been submitted.
C2_Witness ==
    /\ Submissions(io) # {}
    /\ Len(submitted) = 2
    /\ self.args # <<>>

\* C3: the repeat question is asked only in a session started without an
\* extrinsic name, and the decision is the one taken at the start for every
\* call: after a successful submission a session started without the name is at
\* the repeat question although the name has been recorded since, and a session
\* started with the name is done, reporting success, with no repeat question.
C3_RepeatOnlyWithoutExtrinsic ==
    /\ pc # "start" => prompt_to_repeat_call = (given.extrinsic = None)
    /\ (pc = "repeat_prompt" \/ Questions(io, RepeatQuestion) # {}) => given.extrinsic = None
    /\ \A i \in Submissions(io) :
          (Len(io) > i /\ io[i + 1].op = "outro") =>
              IF given.extrinsic = None
              THEN \/ pc = "repeat_prompt" /\ Len(io) = i + 1
                   \/ Len(io) > i + 1 /\ io[i + 2].text = RepeatQuestion
              ELSE /\ pc = "done"
                   /\ Len(io) = i + 2
                   /\ Last(io) = Event("outro", "Call completed successfully!", NoAns)

\* The repeat question is reached after the second call, whose extrinsic name
\* configure has recorded.
C3_Witness ==
    /\ pc = "repeat_prompt"
    /\ calls = 2
    /\ self.extrinsic # None
    /\ given.extrinsic = None

\* C4: all submissions of a session carry the same, non-empty signer; the
\* signer question is asked only while no signer is known, which is only in
\* the first call of a session started with an empty signer, and at most once;
\* a signer given up front is never changed; and from the second call on every
\* call line shown carries the signer of the first submission.
C4_SignerSticky ==
    /\ \A j, k \in 1..Len(submitted) : submitted[j].suri = submitted[k].suri
    /\ \A k \in 1..Len(submitted) : submitted[k].suri # ""
    /\ Questions(io, SignerQuestion) # {} => calls = 1 /\ given.suri = ""
    /\ Cardinality(Questions(io, SignerQuestion)) <= 1
    /\ given.suri # "" => self.suri = given.suri
    /\ submitted # <<>> => self.suri = submitted[1].suri
    /\ calls >= 2 =>
          \A i \in Events(io, "info") : io[i].text \in {display(self), EncodedLine(self)}

\* A session started without a signer: the operator names //Bob on the first
\* call, and the second call is submitted as //Bob.
C4_Witness ==
    /\ given.suri = ""
    /\ Len(submitted) = 2
    /\ submitted[2].suri = "//Bob"
    /\ Submissions(io) # {}

\* C5: the step from the repeat question back to configure clears the pallet
\* and the extrinsic names and changes nothing else of the command (args, url,
\* signer) nor the connection; in a repeated call the url question is never
\* asked, the url and the handle held stay as they are, and the repeated call is
\* prepared and submitted over the handle of the first submission.
C5_RepeatKeepsConnection ==
    [][ /\ (pc = "repeat_prompt" /\ pc' = "configure") =>
              /\ self'.pallet = None
              /\ self'.extrinsic = None
              /\ self'.args = self.args
              /\ self'.url = self.url
              /\ self'.suri = self.suri
              /\ api' = api
              /\ connections' = connections
        /\ repeat' =>
              /\ Questions(io', UrlQuestion) = {}
              /\ self'.url = self.url
              /\ api' = api
              /\ \A k \in 1..Len(submitted') : submitted'[k].api = submitted'[1].api
              /\ pc' \in {"prepare", "send", "signing"} => api' = submitted'[1].api
      ]_vars

\* The repeated call was submitted over the first handle although the repeated
\* configure set up a second connection.
C5_Witness ==
    /\ repeat
    /\ Len(submitted) = 2
    /\ submitted[2].api = 1
    /\ connections = 2
    /\ self.url # DEFAULT_URL

----------------------------------------------------------------------------
(* The call selector and the value source *)

AfterSelection == {"args", "prepare", "send", "signing", "repeat_prompt", "done", "canceled"}

\* C6: in the first call the pallet question is asked only if no pallet name
\* was supplied and the extrinsic question only if no extrinsic name was
\* supplied, and a supplied extrinsic name is the one the command keeps.
C6_SuppliedNeverPrompted ==
    /\ calls = 1 =>
          /\ Questions(io, PalletQuestion) # {} => given.pallet = None
          /\ Questions(io, ExtrinsicQuestion) # {} => given.extrinsic = None
    /\ given.extrinsic # None => self.extrinsic = given.extrinsic

\* C7: a session given a pallet name the chain does not have, or given an
\* extrinsic name the selected pallet does not have, never gets past the
\* selection: no argument is resolved and nothing is submitted.
C7_SuppliedNamesValidated ==
    LET unknown_pallet == given.pallet # None /\ ~find_pallet_by_name(given.pallet[1]).ok
        unknown_extrinsic ==
            /\ given.extrinsic # None
            /\ self.pallet # None
            /\ find_pallet_by_name(self.pallet[1]).ok
            /\ ExtrinsicsNamed(find_pallet_by_name(self.pallet[1]).pallet,
                               given.extrinsic[1]) = {}
    IN  (unknown_pallet \/ unknown_extrinsic) =>
            /\ pc \notin AfterSelection
            /\ submitted = <<>>
            /\ \A i \in 1..Len(io) : io[i].ans = NoAns \/ io[i].text \in
                  {UrlQuestion, PalletQuestion, ExtrinsicQuestion}

\* C8: when pallet, extrinsic and one fragment per (primitive) argument were
\* supplied, the arguments of the call are the fragments in order, no value is
\* asked for, and the call submitted carries exactly the fragments.
C8_FragmentsUsedInOrder ==
    LET supplied ==
            /\ calls = 1
            /\ given.pallet # None
            /\ given.extrinsic # None
            /\ \A k \in 1..Len(extrinsic.fields) : extrinsic.fields[k].options = <<>>
            /\ Len(given.args) = Len(extrinsic.fields)
            /\ given.args # <<>>
    IN  (pc \in AfterSelection \ {"args"} /\ supplied) =>
            /\ self.args = given.args
            /\ \A k \in 1..Len(extrinsic.fields) :
                  Questions(io, ValueQuestion(extrinsic.fields[k])) = {}
            /\ \A i \in Submissions(io) :
                  io[i].text = encode_call_data([PayloadOf(self) EXCEPT !.args = given.args])

----------------------------------------------------------------------------
(* The argument resolver *)

\* C9: for a descriptor marked optional and run under a script that begins
\* with yes, the run succeeds exactly when resolving the same descriptor as
\* non-optional under the rest of the script does, its value is Some(v) for
\* that run's value v, and after the yes/no question it issues that run's
\* requests and leaves that run's answers; under a script that begins with no
\* the value is None, the yes/no question is the only request, and no further
\* answer is used.
C9_OptionalWrapping ==
    (rDone /\ rArg.optional /\ rScript # <<>> /\ Head(rScript).k = "confirm") =>
        IF Head(rScript).b
        THEN LET v == prompt_argument(Required(rArg), Cli(Tail(rScript)))
             IN  /\ rRes.ok = v.ok
                 /\ v.ok => rRes.val = "Some(" \o v.val \o ")"
                 /\ Tail(rRes.cli.log) = v.cli.log
                 /\ rRes.cli.script = v.cli.script
        ELSE /\ rRes.ok
             /\ rRes.val = "None"
             /\ Len(rRes.cli.log) = 1
             /\ rRes.cli.log[1].op = "confirm"
             /\ rRes.cli.script = Tail(rScript)

\* An optional variant, provided: Some(Foo(1, true)).
C9_Witness ==
    /\ rDone
    /\ rArg = Optional(Variant("kind", <<Foo, Bar>>))
    /\ rScript = <<Yes, Pick(1), Text("1"), Text("true")>>
    /\ rRes.ok
    /\ rRes.val = "Some(Foo(1, true))"

RECURSIVE FieldRuns(_, _)
\* Each field resolved by prompt_argument under what the fields before it left
\* of the script.
FieldRuns(fields, script) ==
    IF fields = <<>> THEN <<>>
    ELSE LET run == prompt_argument(Head(fields), Cli(script))
         IN  <<run>> \o FieldRuns(Tail(fields), run.cli.script)

RECURSIVE Requests(_)
\* The requests of a sequence of runs, in order.
Requests(runs) == IF runs = <<>> THEN <<>> ELSE Head(runs).cli.log \o Requests(Tail(runs))

\* C10: for a variant descriptor (not optional) and a script that begins with
\* the choice of alternative A, when every field of A resolves, the value is
\* A's name followed by the fields' values in declared order, joined by ", "
\* and enclosed in parentheses, or A's name alone when A has no fields, and the
\* requests issued are the choice followed by the requests of A's fields only.
\* Foo(u32, bool) answered 1 and true yields Foo(1, true).
C10_VariantRendering ==
    /\ (/\ rDone
        /\ ~rArg.optional
        /\ rArg.variant
        /\ rArg.options # <<>>
        /\ rScript # <<>>
        /\ Head(rScript).k = "select"
        /\ Head(rScript).i \in 1..Len(rArg.options)) =>
           LET A == rArg.options[Head(rScript).i]
               runs == FieldRuns(A.options, Tail(rScript))
               values == [k \in 1..Len(runs) |-> runs[k].val]
           IN  (\A k \in 1..Len(runs) : runs[k].ok) =>
                   /\ rRes.ok
                   /\ rRes.val = IF A.options = <<>> THEN A.name
                                 ELSE A.name \o "(" \o join(values, ", ") \o ")"
                   /\ Tail(rRes.cli.log) = Requests(runs)
                   /\ rRes.cli.log[1].op = "select"
    /\ (/\ rDone
        /\ rArg = Variant("kind", <<Foo, Bar>>)
        /\ rScript = <<Pick(1), Text("1"), Text("true")>>) => rRes.val = "Foo(1, true)"

\* The alternative Foo chosen and its two fields answered 1 and true.
C10_Witness ==
    /\ rDone
    /\ rArg = Variant("kind", <<Foo, Bar>>)
    /\ rScript = <<Pick(1), Text("1"), Text("true")>>
    /\ rRes.ok
    /\ rRes.val = "Foo(1, true)"
    /\ Len(rRes.cli.log) = 3

\* The answers the requests of a log were given.
AnswersOf(log) == [k \in 1..Len(log) |-> log[k].ans]

\* The orders n fields can be declared in.
Perms(n) == { p \in [1..n -> 1..n] : \A i, j \in 1..n : p[i] = p[j] => i = j }

\* C11: for a composite descriptor (not optional) whose fields all resolve, the
\* requests issued are those of the fields in declared order, and the value is
\* the fields' values in that order joined by ", " with nothing around them;
\* and for every other order of declaring the same fields, answered as before
\* field by field, the requests and the value come in that other order.
\* Three fields answered 1, true, true yield 1, true, true.
C11_CompositeOrder ==
    /\ (rDone /\ ~rArg.optional /\ ~rArg.variant /\ rArg.options # <<>>) =>
           LET runs == FieldRuns(rArg.options, rScript)
               n == Len(runs)
               values == [k \in 1..n |-> runs[k].val]
           IN  (\A k \in 1..n : runs[k].ok) =>
                   /\ rRes.ok
                   /\ rRes.val = join(values, ", ")
                   /\ rRes.cli.log = Requests(runs)
                   /\ \A p \in Perms(n) :
                         LET permuted == [rArg EXCEPT !.options =
                                             [k \in 1..n |-> rArg.options[p[k]]]]
                             requests == Requests([k \in 1..n |-> runs[p[k]]])
                             res == prompt_argument(permuted, Cli(AnswersOf(requests)))
                         IN  /\ res.ok
                             /\ res.val = join([k \in 1..n |-> values[p[k]]], ", ")
                             /\ res.cli.log = requests
    /\ (/\ rDone
        /\ rArg = Composite("point", <<Prim("x", "u32"), Prim("y", "u32"), Prim("z", "u32")>>)
        /\ rScript = <<Text("1"), Text("true"), Text("true")>>) =>
           rRes.val = "1, true, true"

\* The three fields of point answered 1, true, true.
C11_Witness ==
    /\ rDone
    /\ rArg = Composite("point", <<Prim("x", "u32"), Prim("y", "u32"), Prim("z", "u32")>>)
    /\ rScript = <<Text("1"), Text("true"), Text("true")>>
    /\ rRes.ok
    /\ rRes.val = "1, true, true"
    /\ Len(rRes.cli.log) = 3

----------------------------------------------------------------------------
(* Errors and the end of the session *)

\* The positions of configure and prepare_extrinsic.
Building == {"configure", "select", "args", "prepare"}

\* C12: a step of configure or prepare_extrinsic that meets an error ends the
\* session as failed, with a failure message the last thing reported, no
\* encoded call data shown, no submit question asked and no submission made for
\* the call, in the first call and in a repeated one; the session takes no step
\* after it has failed; and a call that has advanced met no error: no prompt of
\* it was canceled, past configure the connection and the metadata were set
\* up, and past prepare_extrinsic the payload holds one argument per field and
\* its encoding is the last thing shown.
C12_ErrorsStopTheCall ==
    [][ /\ pc # "failed"
        /\ (pc \in Building /\ pc' = "failed") =>
              /\ io' # <<>>
              /\ Last(io').op = "outro_cancel"
              /\ \A i \in Events(io', "info") : io'[i].text = display(self')
              /\ Events(io', "info") # {} => pc = "prepare"
              /\ Questions(io', SubmitQuestion) = {}
              /\ Submissions(io') = {}
              /\ submitted' = submitted
              /\ Len(submitted') = calls' - 1
              /\ tx' = NoTx
        /\ pc' # "failed" => \A i \in 1..Len(io') : io'[i].ans # Cancel
        /\ (pc \in Building /\ pc' \in {"select", "args", "prepare", "send"}) =>
              /\ Events(io', "set_up_api") # {}
              /\ Events(io', "parse_chain_metadata") # {}
        /\ (pc = "prepare" /\ pc' = "send") =>
              /\ Len(tx'.args) = Len(extrinsic'.fields)
              /\ Last(io') = Event("info", EncodedLine(self'), NoAns)
      ]_vars

\* The repeated call of a session fails to build after the first was submitted.
C12_Witness ==
    /\ pc = "failed"
    /\ calls = 2
    /\ Len(submitted) = 1
    /\ Submissions(io) = {}
    /\ Last(io) = Event("outro_cancel", "Error parsing the arguments: error", NoAns)

\* C13: when sign_and_submit_extrinsic fails, the error is the last thing
\* reported, as a failure carrying the cause, right after the one invocation
\* made for the call; nothing is reported as a success, no repeat question
\* follows, also in a session that offers repeats, and the session has ended:
\* it takes no further step, so the call is not submitted again.
C13_SubmissionFailureEnds ==
    [][ /\ (pc = "signing" /\ pc' = "failed") =>
              /\ Len(io') = Len(io) + 2
              /\ io'[Len(io) + 1] =
                     Event("sign_and_submit_extrinsic", encode_call_data(tx), NoAns)
              /\ Last(io') = Event("outro_cancel", "ERROR: submission failed", NoAns)
              /\ Cardinality(Submissions(io')) = 1
              /\ Events(io', "outro") = {}
              /\ Questions(io', RepeatQuestion) \cap (2..Len(io')) = {}
              /\ Len(submitted') = Len(submitted) + 1
              /\ Len(submitted') = calls'
        /\ (pc = "failed" /\ Submissions(io) # {}) => UNCHANGED vars
      ]_vars

\* The submission of a repeated call fails in a session that offers repeats.
C13_Witness ==
    /\ pc = "failed"
    /\ prompt_to_repeat_call
    /\ calls = 2
    /\ Len(submitted) = 2
    /\ Submissions(io) # {}
    /\ Last(io) = Event("outro_cancel", "ERROR: submission failed", NoAns)

----------------------------------------------------------------------------
(* The call line *)

RECURSIVE ArgList(_)
\* "a1", "a2", ... for a non-empty list of arguments.
ArgList(args) ==
    IF Len(args) = 1 THEN "\"" \o args[1] \o "\""
    ELSE ArgList(SubSeq(args, 1, Len(args) - 1)) \o ", \"" \o args[Len(args)] \o "\""

RECURSIVE Concat(_)
Concat(segments) ==
    IF segments = <<>> THEN "" ELSE Head(segments) \o Concat(Tail(segments))

\* The segments of the call line of a command, in their order.
Segments(cmd) ==
    <<"pop call parachain">>
        \o (IF cmd.pallet = None THEN <<>> ELSE <<" --pallet " \o cmd.pallet[1]>>)
        \o (IF cmd.extrinsic = None THEN <<>> ELSE <<" --extrinsic " \o cmd.extrinsic[1]>>)
        \o (IF cmd.args = <<>> THEN <<>> ELSE <<" --args " \o ArgList(cmd.args)>>)
        \o <<" --url " \o cmd.url \o " --suri " \o cmd.suri>>

\* C14: the call line of the command is `pop call parachain`, then
\* ` --pallet <p>` iff a pallet is recorded, ` --extrinsic <e>` iff an extrinsic
\* is recorded, ` --args "a1", "a2", ...` in argument order iff there are
\* arguments, then ` --url <url> --suri <signer>`, in this order; this is the
\* line configure shows last and send_extrinsic shows before its question, and
\* the two are the same line when the command did not change in between.
C14_DisplayLine ==
    /\ display(self) = Concat(Segments(self))
    /\ pc = "prepare" => Last(io) = Event("info", Concat(Segments(self)), NoAns)
    /\ pc = "signing" =>
          /\ io[Len(io) - 1] = Event("info", Concat(Segments(self)), NoAns)
          /\ Questions(io, SignerQuestion) = {} => io[Len(io) - 3] = io[Len(io) - 1]
    /\ self = Command(Some("Balances"), Some("transfer"), <<"1", "true">>,
                      "ws://node:9944/", "//Alice") =>
          display(self) = "pop call parachain --pallet Balances --extrinsic transfer"
                             \o " --args \"1\", \"true\" --url ws://node:9944/ --suri //Alice"
    /\ self = Command(None, None, <<>>, "ws://node:9944/", "//Alice") =>
          display(self) = "pop call parachain --url ws://node:9944/ --suri //Alice"
    /\ self = Command(Some("System"), Some("noop"), <<>>, "ws://node:9944/", "//Bob") =>
          display(self) = "pop call parachain --pallet System --extrinsic noop"
                             \o " --url ws://node:9944/ --suri //Bob"

\* The line of Balances.transfer with two arguments has been shown twice and
\* the call confirmed.
C14_Witness ==
    /\ pc = "signing"
    /\ self = Command(Some("Balances"), Some("transfer"), <<"1", "true">>,
                      "ws://node:9944/", "//Alice")
    /\ io[Len(io) - 1].text =
          "pop call parachain --pallet Balances --extrinsic transfer"
              \o " --args \"1\", \"true\" --url ws://node:9944/ --suri //Alice"

----------------------------------------------------------------------------
(* Network operations *)

\* C16: a session sets up one connection and fetches the metadata once, in the
\* first configure; the log of a repeated call holds no set_up_api and no
\* parse_chain_metadata, only sign_and_submit_extrinsic goes to the node.
C16_NetworkOnlyToSubmit ==
    /\ connections <= 1
    /\ repeat =>
          /\ Events(io, "set_up_api") = {}
          /\ Events(io, "parse_chain_metadata") = {}

----------------------------------------------------------------------------
(* The command a call is built from *)

\* The extrinsic of the chain's metadata that the command names.
Recorded(cmd) ==
    LET pallet == find_pallet_by_name(cmd.pallet[1]).pallet
    IN  pallet.extrinsics[CHOOSE i \in ExtrinsicsNamed(pallet, cmd.extrinsic[1]) : TRUE]

\* The requests of the current call between the extrinsic question and the
\* first line shown after it: those of the argument resolution.
ArgumentRequests(log) ==
    LET asked == CHOOSE i \in Questions(log, ExtrinsicQuestion) : TRUE
        shown == CHOOSE i \in Events(log, "info") : \A j \in Events(log, "info") : i <= j
    IN  SubSeq(log, asked + 1, shown - 1)

\* C17: whenever prepare_extrinsic is reached, and until the call is
\* submitted, the argument list of the command has one entry per field of the
\* extrinsic the command names, in the fields' order, each the value its field
\* resolved to under the answers given in this call's configure; whatever the
\* list held before (values of the previous call, fragments of the command
\* line) is gone, and the payload built carries exactly this list.
C17_ArgsOfThisCall ==
    pc \in {"prepare", "send", "signing"} =>
        /\ self.pallet # None
        /\ self.extrinsic # None
        /\ find_pallet_by_name(self.pallet[1]).ok
        /\ ExtrinsicsNamed(find_pallet_by_name(self.pallet[1]).pallet,
                           self.extrinsic[1]) # {}
        /\ Cardinality(Questions(io, ExtrinsicQuestion)) = 1
        /\ Events(io, "info") # {}
        /\ LET fields == Recorded(self).fields
               requests == ArgumentRequests(io)
               runs == FieldRuns(fields, AnswersOf(requests))
           IN  /\ Len(self.args) = Len(fields)
               /\ \A k \in 1..Len(fields) : runs[k].ok /\ self.args[k] = runs[k].val
               /\ Requests(runs) = requests
        /\ pc \in {"send", "signing"} => tx.args = self.args

\* The repeated call of a session that was given two fragments is
\* transfer_all, with its one argument provided.
C17_Witness ==
    /\ pc = "prepare"
    /\ calls = 2
    /\ given.args = <<"5Grwva", "1000">>
    /\ self.extrinsic = Some("transfer_all")
    /\ self.args = <<"Some(true)">>

----------------------------------------------------------------------------
(* The shape a descriptor is resolved as *)

\* C18: the value of a descriptor, asked for directly when it is not optional
\* and after the yes when it is, is resolved in one way, fixed by its
\* sub-arguments first and its variant flag second: with no sub-arguments, one
\* free-text request for the descriptor and nothing else, the entry being the
\* value, whatever the variant flag; with sub-arguments and the flag, the
\* choice among the descriptor's alternatives first; with sub-arguments and no
\* flag, the first field's first request first, and neither a choice nor a
\* free-text request for the descriptor itself.
C18_OneBranch ==
    (rDone /\ (rArg.optional => rScript # <<>> /\ Head(rScript) = Yes)) =>
        LET log == IF rArg.optional THEN Tail(rRes.cli.log) ELSE rRes.cli.log
            script == IF rArg.optional THEN Tail(rScript) ELSE rScript
            entered == script # <<>> /\ Head(script).k = "input"
            choice == "Select the value for the parameter: " \o rArg.name
        IN  /\ log # <<>>
            /\ IF rArg.options = <<>>
               THEN /\ log = <<Event("input", ValueQuestion(rArg),
                                     IF entered THEN Head(script) ELSE Cancel)>>
                    /\ rRes.ok = entered
                    /\ rRes.ok => rRes.val = IF rArg.optional
                                             THEN "Some(" \o Head(script).t \o ")"
                                             ELSE Head(script).t
               ELSE IF rArg.variant
               THEN /\ log[1].op = "select"
                    /\ log[1].text = choice
               ELSE /\ log[1] = FieldRuns(rArg.options, script)[1].cli.log[1]
                    /\ log[1].text \notin {choice, ValueQuestion(rArg)}

\* A descriptor with the variant flag and no sub-arguments takes the entry.
C18_Witness ==
    /\ rDone
    /\ rArg = Arg("flag", "bool", FALSE, TRUE, <<>>)
    /\ rScript = <<Text("true")>>
    /\ rRes.ok
    /\ rRes.val = "true"
    /\ rRes.cli.log = <<Event("input", "Enter the value for the parameter: flag",
                              Text("true"))>>

----------------------------------------------------------------------------
(* The repeat loop and the end of the session *)

Terminal == {"done", "canceled", "failed"}

\* The current call has been submitted and accepted.
Accepted ==
    \E i \in Events(io, "outro") : io[i].text = "Extrinsic submitted with hash: 0x"

\* The calls submitted successfully so far: every invocation but a failed one,
\* which is the last of its session.
Successes ==
    Len(submitted) - (IF Submissions(io) # {} /\ ~Accepted THEN 1 ELSE 0)

\* The yes answers to the repeat question that a successful call has followed:
\* every yes started one call, and every call but the current one succeeded.
YesThenSuccess ==
    IF calls <= 1 THEN 0 ELSE (calls - 2) + (IF Accepted THEN 1 ELSE 0)

Configured == {"prepare", "send", "signing", "repeat_prompt", "done", "canceled"}

\* C20: once configure has succeeded, in the first call and in a repeated one,
\* the command records a pallet name and an extrinsic name; the pallet is one
\* of the chain, the one picked when the pallet was asked for; the extrinsic
\* is the one picked at the extrinsic question among that pallet's, and it is
\* the one whose fields configure resolved; and no session ever reports
\* `Please specify the extrinsic.` or `Please specify the pallet.`.
C20_NamesRecorded ==
    /\ pc \in Configured =>
          /\ self.pallet # None
          /\ self.extrinsic # None
          /\ find_pallet_by_name(self.pallet[1]).ok
          /\ LET pallet == find_pallet_by_name(self.pallet[1]).pallet
             IN  /\ \A i \in Questions(io, PalletQuestion) : Pallets[io[i].ans.i] = pallet
                 /\ Questions(io, ExtrinsicQuestion) # {}
                 /\ \A i \in Questions(io, ExtrinsicQuestion) :
                       /\ pallet.extrinsics[io[i].ans.i] = extrinsic
                       /\ pallet.extrinsics[io[i].ans.i].name = self.extrinsic[1]
          /\ Requests(FieldRuns(extrinsic.fields, AnswersOf(ArgumentRequests(io))))
                = ArgumentRequests(io)
    /\ \A i \in 1..Len(io) :
          io[i].text \notin {"Please specify the extrinsic.", "Please specify the pallet."}

\* The repeated call of a session started without names: System.remark is
\* picked and recorded.
C20_Witness ==
    /\ pc = "prepare"
    /\ calls = 2
    /\ given.pallet = None
    /\ given.extrinsic = None
    /\ self.pallet = Some("System")
    /\ self.extrinsic = Some("remark")

----------------------------------------------------------------------------
(* The url question and the intro *)

\* C21: the url question is asked only in the first call of a session whose
\* url is the built-in default, and at most once; the url changes only in the
\* step that asks; a url given other than the default is the url of the
\* command for ever; a repeated call asks for no url and shows no intro, also
\* when the url entered is the default again; and the intro is the first
\* thing of the first call and shown once.
C21_UrlAndIntroOnce ==
    [][ /\ Questions(io', UrlQuestion) # {} =>
              /\ calls' = 1
              /\ ~repeat'
              /\ given.url = DEFAULT_URL
              /\ Cardinality(Questions(io', UrlQuestion)) = 1
        /\ self'.url # self.url =>
              /\ pc = "configure"
              /\ ~repeat
              /\ self.url = DEFAULT_URL
              /\ Questions(io, UrlQuestion) = {}
              /\ Questions(io', UrlQuestion) # {}
        /\ given.url # DEFAULT_URL => self'.url = given.url
        /\ repeat' => Events(io', "intro") = {}
        /\ (calls' = 1 /\ pc' # "configure") => Events(io', "intro") = {1}
        /\ (calls' = 1 /\ pc' = "configure") => io' = <<>>
      ]_vars

\* The operator entered the default url at the question; the repeated call
\* has connected without asking again.
C21_Witness ==
    /\ repeat
    /\ pc = "select"
    /\ given.url = DEFAULT_URL
    /\ self.url = DEFAULT_URL
    /\ connections = 2
    /\ Questions(io, UrlQuestion) = {}
    /\ Events(io, "intro") = {}

----------------------------------------------------------------------------
(* Instantiating a template *)

OpsOf(kinds) == { i \in 1..Len(tOps) : tOps[i].kind \in kinds }

\* The operations that clone or write to the file system.
Writing ==
    {"TempDir::new_in", "clone_and_degit", "create_dir_all", "copy", "write_to_file",
     "extract_template_files", "fs::write"}

\* The writes of the two generated files.
ChainSpecWrites ==
    { i \in OpsOf({"write_to_file"}) :
          tOps[i].path = PathJoin(Target, "node/src/chain_spec.rs") }

NetworkWrites ==
    { i \in OpsOf({"write_to_file"}) : tOps[i].path = PathJoin(Target, "network.toml") }

\* C22: sanitizing the target is the first operation and made once; when it
\* fails nothing is cloned or written and an error is returned. Otherwise one
\* strategy runs: for a template of the Pop provider the standard one (one
\* clone, into a temporary directory, copied entry by entry into the target),
\* for a template of the Tanssi provider the Tanssi one (one clone into a
\* temporary directory, then extraction), for any other one clone into the
\* target and nothing more. The standard strategy, once every entry is
\* copied, writes node/src/chain_spec.rs rendered from the config and, that
\* written, network.toml rendered for parachain-template-node, in this order
\* and after every copy; it returns Ok only with both written.
C22_SanitizeThenOneStrategy ==
    /\ tPc # "start" =>
          /\ tOps # <<>>
          /\ tOps[1].kind = "sanitize"
          /\ OpsOf({"sanitize"}) = {1}
          /\ ~tOps[1].ok => /\ OpsOf(Writing) = {}
                            /\ tResult.done
                            /\ ~tResult.ok
    /\ tPc = "start" => tOps = <<>>
    /\ Cardinality(OpsOf({"clone_and_degit"})) <= 1
    /\ \A i \in OpsOf({"clone_and_degit"}) :
          tOps[i].path = IF tTemplate.provider \in {"Pop", "Tanssi"} THEN TempDir ELSE Target
    /\ tTemplate.provider = "Pop" =>
          /\ OpsOf({"extract_template_files", "fs::write", "collect_manifest_dependencies"})
                = {}
          /\ tPc \notin {"tanssi", "clone"}
    /\ tTemplate.provider = "Tanssi" =>
          /\ OpsOf({"create_dir_all", "copy"}) = {}
          /\ ChainSpecWrites = {}
          /\ tPc \notin {"standard", "copy", "chain_spec", "network", "clone"}
    /\ tTemplate.provider \notin {"Pop", "Tanssi"} =>
          /\ OpsOf(Writing) \subseteq {2}
          /\ OpsOf(Writing) = OpsOf({"clone_and_degit"})
          /\ tPc \in {"start", "clone", "returned"}
          /\ (tResult.done /\ tOps[1].ok) => OpsOf({"clone_and_degit"}) = {2}
    /\ tTemplate.provider = "Pop" =>
          LET copies == OpsOf({"create_dir_all", "copy"})
              copied == { i \in copies : tOps[i].ok }
          IN  /\ \A i \in ChainSpecWrites :
                    /\ \A j \in copies : j < i
                    /\ Cardinality(copied) = Len(tSource)
                    /\ tOps[i].content = ChainSpecRender(tConfig.symbol, tConfig.decimals,
                                                          tConfig.initial_endowment)
              /\ \A i \in NetworkWrites :
                    /\ i - 1 \in ChainSpecWrites
                    /\ tOps[i - 1].ok
                    /\ tOps[i].content = NetworkRender("parachain-template-node")
              /\ Cardinality(ChainSpecWrites) <= 1
              /\ Cardinality(NetworkWrites) <= 1
              /\ (Cardinality(copied) = Len(tSource) /\ (tResult.done \/ tPc = "network")) =>
                    ChainSpecWrites # {}
              /\ (tResult.done /\ \E i \in ChainSpecWrites : tOps[i].ok) =>
                    NetworkWrites # {}
              /\ (tResult.done /\ tResult.ok) =>
                    /\ Len(tOps) \in NetworkWrites
                    /\ tOps[Len(tOps)].ok

\* The standard template instantiated: five entries copied, then the two files.
C22_Witness ==
    /\ tResult.done
    /\ tResult.ok
    /\ tTemplate = Parachain("standard", "Pop")
    /\ tConfig = Config("DOT", 18, "1000000")
    /\ Len(tSource) = 5
    /\ Len(tOps) = 10
    /\ tOps[9] = Op("write_to_file", "my-parachain/node/src/chain_spec.rs",
                    ChainSpecRender("DOT", 18, "1000000"), TRUE)
    /\ tOps[10] = Op("write_to_file", "my-parachain/network.toml",
                     NetworkRender("parachain-template-node"), TRUE)

====
